---- MODULE Spec2Model ----
(***************************************************************************)
(* Authentication and user-directory helpers of the travel agency          *)
(* dashboard (src/unnamed/part_000): getExistingUser, getGooglePicture,    *)
(* storeUserData, loginWithGoogle, logoutUser, getUser, getAllUsers.       *)
(*                                                                         *)
(* Every client (a browser tab or a server loader) runs one helper at a    *)
(* time; a helper is suspended at every `await`, so each backend call is   *)
(* one step and the steps of different clients interleave.  The only       *)
(* shared state is the remote user collection (docs).  The Appwrite        *)
(* backend and the Google People endpoint are the environment: each call   *)
(* answers with a value or rejects with an error.                          *)
(***************************************************************************)
EXTENDS Naturals, Sequences, FiniteSets

VARIABLES
    docs,       \* the remote user collection, in creation order
    clock,      \* logical time read by `new Date()`
    session,    \* session[c]: the account client c is signed in to, or NoSession
    pc,         \* pc[c]: the await at which client c's helper is suspended
    op,         \* op[c]: the helper client c is running
    args,       \* args[c]: the helper's arguments
    user,       \* storeUserData / getUser local `user`
    picture,    \* storeUserData local `profilePicture`
    ret,        \* ret[c]: the value the helper returned
    outcome,    \* outcome[c]: "returned" or "threw" (how the helper ended)
    trace,      \* trace[c]: the backend calls this invocation has made, in order
    failed,     \* failed[c]: the backend calls of this invocation whose rejection reached a catch clause
    providerAccessToken, \* storeUserData local `providerAccessToken`
    prior,      \* prior[c]: $id of the caller's stored profile when storeUserData was called (0: none)
    created,    \* created[c]: $id of the document this invocation created (0: none)
    schedule    \* "interleaved": helpers of different clients overlap; "sequential": one at a time

vars == <<docs, clock, session, pc, op, args, user, picture, ret, outcome,
          trace, failed, providerAccessToken, prior, created, schedule>>

-----------------------------------------------------------------------------
(* Bounds *)

MaxDocs == 2

Clients == {"c1", "c2"}
AccountIds == {"a1", "a2"}
\* The (limit, offset) pairs getAllUsers is called with.
PageRequests == {<<1, 1>>, <<2, 0>>}

-----------------------------------------------------------------------------
(* JavaScript values *)

Null == [type |-> "null"]
Undefined == [type |-> "undefined"]
Str(s) == [type |-> "string", value |-> s]

\* JavaScript truthiness, as used by `providerAccessToken ? ... : null`
\* and `if (existingUser)`.
Truthy(v) ==
    /\ v.type \notin {"null", "undefined"}
    /\ (v.type = "string" => v.value # "")

\* `a ?? b`
Coalesce(a, b) == IF a.type \in {"null", "undefined"} THEN b ELSE a

Min(a, b) == IF a < b THEN a ELSE b

-----------------------------------------------------------------------------
(* The environment: identities, sessions and backend answers *)

NoSession == "none"
NoUser == [id |-> "none", email |-> "none", name |-> "none"]
NoArgs == [limit |-> 0, offset |-> 0, id |-> "none"]

\* The identity account.get() resolves for account a.
Identity(a) == [id |-> a, email |-> "email_" \o a, name |-> "name_" \o a]

Token(a) == "token_" \o a
PhotoUrl(token) == "photo_" \o token

Ok(v) == [kind |-> "ok", value |-> v]
Err(code) == [kind |-> "err", code |-> code]

\* account.get(): 401 without a session; with one, the identity or another error.
AccountGetResponses(s) ==
    IF s = NoSession THEN {Err(401), Err(500)}
                     ELSE {Ok(Identity(s)), Err(500)}

\* account.getSession("current"): the session, with or without an OAuth
\* provider token, or an error.
GetSessionResponses(s) ==
    IF s = NoSession
      THEN {Err(401)}
      ELSE {Ok([type |-> "session", providerAccessToken |-> Str(Token(s))]),
            Ok([type |-> "session", providerAccessToken |-> Str("")]),
            Err(500)}

\* fetch(people API): network error, non-success status, a body that is not
\* JSON, a body without photos, a body with a photo.
FetchResponses(token) ==
    {Err(0),
     Ok([ok |-> FALSE, json |-> TRUE, photos |-> <<>>]),
     Ok([ok |-> TRUE, json |-> FALSE, photos |-> <<>>]),
     Ok([ok |-> TRUE, json |-> TRUE, photos |-> <<>>]),
     Ok([ok |-> TRUE, json |-> TRUE, photos |-> <<[url |-> Str(PhotoUrl(token))]>>])}

\* database.listDocuments(db, users, [Query.equal("accountId", id)])
ListByAccountId(store, id) ==
    LET found == SelectSeq(store, LAMBDA d : d.accountId = id)
    IN  [documents |-> found, total |-> Len(found)]

\* Query.select([...]): the projection of a document on the selected fields.
SelectFields(d) ==
    [type |-> "document", name |-> d.name, email |-> d.email,
     imageUrl |-> d.imageUrl, joinedAt |-> d.joinedAt, accountId |-> d.accountId]

RECURSIVE MapSelect(_)
MapSelect(s) ==
    IF s = <<>> THEN <<>> ELSE <<SelectFields(Head(s))>> \o MapSelect(Tail(s))

\* database.listDocuments(db, users, [Query.equal("accountId", id), Query.select([...])])
ListByAccountIdSelected(store, id) ==
    LET found == MapSelect(ListByAccountId(store, id).documents)
    IN  [documents |-> found, total |-> Len(found)]

\* database.listDocuments(db, users, [Query.limit(limit), Query.offset(offset)])
ListPage(store, limit, offset) ==
    [documents |-> SubSeq(store, offset + 1, Min(offset + limit, Len(store))),
     total |-> Len(store)]

\* Mutant of NewUserData: email and name are exchanged.
NewUserDataSwapped(u, pic, now) ==
    [accountId |-> u.id, email |-> u.name, name |-> u.email,
     imageUrl |-> pic, joinedAt |-> now]

\* The document storeUserData asks createDocument to store.
NewUserData(u, pic, now) ==
    [accountId |-> u.id, email |-> u.email, name |-> u.name,
     imageUrl |-> pic, joinedAt |-> now]

\* database.createDocument(db, users, ID.unique(), data): the stored document.
\* ID.unique() is the next unused $id.
CreatedDocument(store, data) ==
    [type |-> "document", id |-> Len(store) + 1,
     accountId |-> data.accountId, email |-> data.email, name |-> data.name,
     imageUrl |-> data.imageUrl, joinedAt |-> data.joinedAt]

\* $id of the first stored profile of account a, 0 when there is none.
FirstIdOf(store, a) ==
    LET r == ListByAccountId(store, a)
    IN  IF a # NoSession /\ r.total > 0 THEN r.documents[1].id ELSE 0

-----------------------------------------------------------------------------
(* How a helper ends *)

Returned(v) == [outcome |-> "returned", value |-> v]
Threw(e) == [outcome |-> "threw", value |-> Undefined, error |-> e]

-----------------------------------------------------------------------------
(* The helpers' synchronous code: what each does with a backend answer *)

\* getExistingUser, lines 9-19: the first matching document or null; an
\* error is logged and becomes null.
GetExistingUser(resp) ==
    IF resp.kind = "ok"
      THEN Returned(IF resp.value.total > 0 THEN resp.value.documents[1] ELSE Null)
      ELSE Returned(Null)

\* The picture fetch counts as failed on a network error, a non-success
\* status (line 32) or a body res.json() rejects (line 34).
PictureFailed(resp) ==
    resp.kind = "err" \/ ~resp.value.ok \/ ~resp.value.json

\* The name a picture fetch is logged under: whether the endpoint served a
\* photo URL or not.
FetchName(resp) ==
    IF ~PictureFailed(resp) /\ Len(resp.value.photos) > 0
      THEN "fetch:photo"
      ELSE "fetch:nophoto"

\* Mutant of GetGooglePicture: a failed fetch is not caught.
GetGooglePictureThrows(resp) ==
    IF PictureFailed(resp)
      THEN Threw(resp)
      ELSE Returned(IF Len(resp.value.photos) > 0
                      THEN Coalesce(resp.value.photos[1].url, Null)
                      ELSE Null)

\* getGooglePicture, lines 26-39 (the fetch and the reading of its body
\* touch no shared state and are one step).
GetGooglePicture(resp) ==
    IF PictureFailed(resp)
      THEN Returned(Null)
      ELSE Returned(IF Len(resp.value.photos) > 0
                      THEN Coalesce(resp.value.photos[1].url, Null)
                      ELSE Null)

\* `account.getSession("current").catch(() => null)`, line 59
SessionOrNull(resp) == IF resp.kind = "ok" THEN resp.value ELSE Null

\* `session?.providerAccessToken ?? null`, line 60
ProviderAccessToken(sess) ==
    IF sess.type \in {"null", "undefined"}
      THEN Null
      ELSE Coalesce(sess.providerAccessToken, Null)

\* storeUserData's inner catch, lines 50-56
StoreUserDataInnerCatch(err) ==
    IF err.code = 401 THEN Returned(Undefined) ELSE Threw(err)

\* Mutant of StoreUserDataCatch: the error is thrown again.
StoreUserDataCatchRethrows(err) == Threw(err)

\* storeUserData's outer catch, lines 85-88
StoreUserDataCatch(err) == Returned(Null)

\* getUser's inner catch, lines 128-134
GetUserInnerCatch(err) ==
    IF err.code = 401 THEN Returned(Null) ELSE Threw(err)

\* getUser's outer catch, lines 146-149
GetUserCatch(err) == Returned(Null)

\* getUser, lines 136-145
GetUserResult(resp) ==
    IF resp.kind = "ok"
      THEN Returned(IF Len(resp.value.documents) > 0
                      THEN resp.value.documents[1]
                      ELSE Null)
      ELSE Threw(resp)

\* Mutant of GetAllUsersResult: a failed list call is not caught.
GetAllUsersResultThrows(resp) ==
    IF resp.kind = "ok"
      THEN Returned([type |-> "page", users |-> resp.value.documents,
                     total |-> resp.value.total])
      ELSE Threw(resp)

\* getAllUsers, lines 156-167
GetAllUsersResult(resp) ==
    IF resp.kind = "ok"
      THEN Returned([type |-> "page", users |-> resp.value.documents,
                     total |-> resp.value.total])
      ELSE Returned([type |-> "page", users |-> <<>>, total |-> 0])

\* logoutUser, lines 113-117: nothing is returned, an error is logged.
LogoutUserResult(resp) == Returned(Undefined)

\* loginWithGoogle, lines 95-106: nothing is returned, an error is logged.
LoginWithGoogleResult(resp) == Returned(Undefined)

\* An exception thrown inside storeUserData's try block (lines 46-84) ends
\* in its catch clause.
InStoreUserDataTry(fin) ==
    IF fin.outcome = "threw" THEN StoreUserDataCatch(fin.error) ELSE fin

\* An exception thrown inside getUser's try block (lines 124-145) ends in
\* its catch clause.
InGetUserTry(fin) ==
    IF fin.outcome = "threw" THEN GetUserCatch(fin.error) ELSE fin

-----------------------------------------------------------------------------
(* State updates shared by the steps *)

Set(f, c, v) == [f EXCEPT ![c] = v]

\* The helper of client c ends as fin says.
Complete(c, fin) ==
    /\ UNCHANGED schedule
    /\ pc' = Set(pc, c, "done")
    /\ ret' = Set(ret, c, fin.value)
    /\ outcome' = Set(outcome, c, fin.outcome)

\* The helper of client c goes on to its next await.
Goto(c, label) ==
    /\ pc' = Set(pc, c, label)
    /\ UNCHANGED <<ret, outcome, schedule>>

RejectionName(call, resp) ==
    IF resp.code = 401 THEN call \o ":401" ELSE call

\* Client c has made backend call `call` and got resp.
Log(c, call, resp) ==
    /\ trace' = Set(trace, c, Append(trace[c], call))
    /\ failed' = IF resp.kind = "err"
                   THEN Set(failed, c, failed[c] \cup {RejectionName(call, resp)})
                   ELSE failed

Start ==
    /\ docs = <<>>
    /\ clock = 0
    /\ session = [c \in Clients |-> NoSession]
    /\ pc = [c \in Clients |-> "idle"]
    /\ op = [c \in Clients |-> "none"]
    /\ args = [c \in Clients |-> NoArgs]
    /\ user = [c \in Clients |-> NoUser]
    /\ picture = [c \in Clients |-> Null]
    /\ providerAccessToken = [c \in Clients |-> Null]
    /\ ret = [c \in Clients |-> Undefined]
    /\ outcome = [c \in Clients |-> "none"]
    /\ trace = [c \in Clients |-> <<>>]
    /\ failed = [c \in Clients |-> {}]
    /\ prior = [c \in Clients |-> 0]
    /\ created = [c \in Clients |-> 0]

Init == Start /\ schedule = "interleaved"

InitSeq == Start /\ schedule = "sequential"

\* No helper of another client is in flight.
Alone(c) == \A d \in Clients \ {c} : pc[d] \in {"idle", "done"}

\* A helper is called by an idle client; under the sequential schedule only
\* while no other helper is in flight.
Call(c, name, a) ==
    /\ pc[c] = "idle"
    /\ schedule = "sequential" => Alone(c)
    /\ op' = Set(op, c, name)
    /\ args' = Set(args, c, a)
    /\ UNCHANGED schedule

-----------------------------------------------------------------------------
(* storeUserData, lines 45-89 *)

CallStoreUserData(c) ==
    /\ Call(c, "storeUserData", NoArgs)
    /\ pc' = Set(pc, c, "sud_account_get")
    /\ prior' = Set(prior, c, FirstIdOf(docs, session[c]))
    /\ UNCHANGED <<docs, clock, session, user, picture, providerAccessToken,
                   ret, outcome, trace, failed, created>>

\* lines 47-56: `user = await account.get()` and the inner catch
SudAccountGet(c) ==
    /\ pc[c] = "sud_account_get"
    /\ \E resp \in AccountGetResponses(session[c]) :
         /\ Log(c, "account.get", resp)
         /\ IF resp.kind = "ok"
              THEN /\ user' = Set(user, c, resp.value)
                   /\ Goto(c, "sud_get_session")
              ELSE /\ Complete(c, InStoreUserDataTry(StoreUserDataInnerCatch(resp)))
                   /\ UNCHANGED user
    /\ UNCHANGED <<docs, clock, session, op, args, picture,
                   providerAccessToken, prior, created>>

\* lines 59-64: the session, its provider token, and whether to fetch
SudGetSession(c) ==
    /\ pc[c] = "sud_get_session"
    /\ \E resp \in GetSessionResponses(session[c]) :
         LET token == ProviderAccessToken(SessionOrNull(resp))
         IN  /\ trace' = Set(trace, c, Append(trace[c], "getSession"))
             /\ UNCHANGED failed
             /\ providerAccessToken' = Set(providerAccessToken, c, token)
             /\ IF Truthy(token)
                  THEN /\ Goto(c, "sud_picture")
                       /\ UNCHANGED picture
                  ELSE /\ Goto(c, "sud_lookup")
                       /\ picture' = Set(picture, c, Null)
    /\ UNCHANGED <<docs, clock, session, op, args, user, prior, created>>

\* lines 62-63: `await getGooglePicture(providerAccessToken)`
SudGetGooglePicture(c) ==
    /\ pc[c] = "sud_picture"
    /\ \E resp \in FetchResponses(providerAccessToken[c].value) :
         LET r == GetGooglePicture(resp)
         IN  /\ trace' = Set(trace, c, Append(trace[c], FetchName(resp)))
             /\ UNCHANGED failed
             /\ IF r.outcome = "threw"
                  THEN /\ Complete(c, StoreUserDataCatch(r.error))
                       /\ UNCHANGED picture
                  ELSE /\ Goto(c, "sud_lookup")
                       /\ picture' = Set(picture, c, r.value)
    /\ UNCHANGED <<docs, clock, session, op, args, user,
                   providerAccessToken, prior, created>>

\* lines 67-68: `await getExistingUser(user.$id)` and the early return
SudGetExistingUser(c) ==
    /\ pc[c] = "sud_lookup"
    /\ \E resp \in {Ok(ListByAccountId(docs, user[c].id)), Err(500)} :
         LET r == InStoreUserDataTry(GetExistingUser(resp))
         IN  /\ Log(c, "listDocuments", resp)
             /\ IF Truthy(r.value)
                  THEN Complete(c, r)
                  ELSE Goto(c, "sud_create")
    /\ UNCHANGED <<docs, clock, session, op, args, user, picture,
                   providerAccessToken, prior, created>>

\* lines 71-84: `await database.createDocument(...)`; the collection holds at
\* most MaxDocs documents, beyond that the backend rejects the request.
SudCreateDocument(c) ==
    /\ pc[c] = "sud_create"
    /\ LET data == NewUserData(user[c], picture[c], clock)
           doc == CreatedDocument(docs, data)
       IN  \/ /\ Len(docs) < MaxDocs
              /\ docs' = Append(docs, doc)
              /\ clock' = clock + 1
              /\ created' = Set(created, c, doc.id)
              /\ Log(c, "createDocument", Ok(doc))
              /\ Complete(c, Returned(doc))
           \/ /\ Log(c, "createDocument", Err(500))
              /\ Complete(c, InStoreUserDataTry(Threw(Err(500))))
              /\ UNCHANGED <<docs, clock, created>>
    /\ UNCHANGED <<session, op, args, user, picture, providerAccessToken, prior>>

-----------------------------------------------------------------------------
(* getUser, lines 123-150 *)

CallGetUser(c) ==
    /\ Call(c, "getUser", NoArgs)
    /\ pc' = Set(pc, c, "gu_account_get")
    /\ UNCHANGED <<docs, clock, session, user, picture, providerAccessToken,
                   ret, outcome, trace, failed, prior, created>>

\* lines 125-134: `user = await account.get()` and the inner catch
GuAccountGet(c) ==
    /\ pc[c] = "gu_account_get"
    /\ \E resp \in AccountGetResponses(session[c]) :
         /\ Log(c, "account.get", resp)
         /\ IF resp.kind = "ok"
              THEN /\ user' = Set(user, c, resp.value)
                   /\ Goto(c, "gu_list")
              ELSE /\ Complete(c, InGetUserTry(GetUserInnerCatch(resp)))
                   /\ UNCHANGED user
    /\ UNCHANGED <<docs, clock, session, op, args, picture,
                   providerAccessToken, prior, created>>

\* Mutant of GuListDocuments: getUser creates the profile it does not find.
GuListDocumentsCreating(c) ==
    /\ pc[c] = "gu_list"
    /\ \E resp \in {Ok(ListByAccountIdSelected(docs, user[c].id)), Err(500)} :
         LET doc == CreatedDocument(docs, NewUserData(user[c], Null, clock))
             missing == resp.kind = "ok" /\ resp.value.total = 0
                          /\ Len(docs) < MaxDocs
         IN  /\ Log(c, "listDocuments", resp)
             /\ docs' = IF missing THEN Append(docs, doc) ELSE docs
             /\ Complete(c, IF missing
                              THEN Returned(doc)
                              ELSE InGetUserTry(GetUserResult(resp)))
    /\ UNCHANGED <<clock, session, op, args, user, picture,
                   providerAccessToken, prior, created>>

\* lines 136-145: the projected lookup and the result
GuListDocuments(c) ==
    /\ pc[c] = "gu_list"
    /\ \E resp \in {Ok(ListByAccountIdSelected(docs, user[c].id)), Err(500)} :
         /\ Log(c, "listDocuments", resp)
         /\ Complete(c, InGetUserTry(GetUserResult(resp)))
    /\ UNCHANGED <<docs, clock, session, op, args, user, picture,
                   providerAccessToken, prior, created>>

-----------------------------------------------------------------------------
(* getAllUsers, lines 155-168 *)

CallGetAllUsers(c) ==
    /\ \E q \in PageRequests :
         Call(c, "getAllUsers", [limit |-> q[1], offset |-> q[2], id |-> "none"])
    /\ pc' = Set(pc, c, "gau_list")
    /\ UNCHANGED <<docs, clock, session, user, picture, providerAccessToken,
                   ret, outcome, trace, failed, prior, created>>

GauListDocuments(c) ==
    /\ pc[c] = "gau_list"
    /\ \E resp \in {Ok(ListPage(docs, args[c].limit, args[c].offset)), Err(500)} :
         /\ Log(c, "listDocuments", resp)
         /\ Complete(c, GetAllUsersResult(resp))
    /\ UNCHANGED <<docs, clock, session, op, args, user, picture,
                   providerAccessToken, prior, created>>

-----------------------------------------------------------------------------
(* getExistingUser called on its own, lines 8-20 *)

CallGetExistingUser(c) ==
    /\ \E id \in AccountIds :
         Call(c, "getExistingUser", [limit |-> 0, offset |-> 0, id |-> id])
    /\ pc' = Set(pc, c, "geu_list")
    /\ UNCHANGED <<docs, clock, session, user, picture, providerAccessToken,
                   ret, outcome, trace, failed, prior, created>>

GeuListDocuments(c) ==
    /\ pc[c] = "geu_list"
    /\ \E resp \in {Ok(ListByAccountId(docs, args[c].id)), Err(500)} :
         /\ Log(c, "listDocuments", resp)
         /\ Complete(c, GetExistingUser(resp))
    /\ UNCHANGED <<docs, clock, session, op, args, user, picture,
                   providerAccessToken, prior, created>>

-----------------------------------------------------------------------------
(* logoutUser, lines 112-118 *)

CallLogoutUser(c) ==
    /\ Call(c, "logoutUser", NoArgs)
    /\ pc' = Set(pc, c, "lo_delete_session")
    /\ UNCHANGED <<docs, clock, session, user, picture, providerAccessToken,
                   ret, outcome, trace, failed, prior, created>>

\* account.deleteSession("current"): ends the session, or rejects (always
\* when there is no session).
DeleteSessionResponses(s) ==
    IF s = NoSession THEN {Err(401)} ELSE {Ok(Null), Err(500)}

LogoutDeleteSession(c) ==
    /\ pc[c] = "lo_delete_session"
    /\ \E resp \in DeleteSessionResponses(session[c]) :
         /\ Log(c, "deleteSession", resp)
         /\ session' = IF resp.kind = "ok" THEN Set(session, c, NoSession)
                                           ELSE session
         /\ Complete(c, LogoutUserResult(resp))
    /\ UNCHANGED <<docs, clock, op, args, user, picture,
                   providerAccessToken, prior, created>>

-----------------------------------------------------------------------------
(* loginWithGoogle, lines 94-107 *)

\* account.createOAuth2Session is not awaited: the helper returns at once.
\* The browser is redirected to the provider; the handshake signs the
\* client in to some account, fails and leaves the session as it was, or
\* the call throws synchronously (and is logged).
LoginWithGoogle(c) ==
    /\ Call(c, "loginWithGoogle", NoArgs)
    /\ \E resp \in {Ok(a) : a \in AccountIds} \cup {Ok(NoSession), Err(500)} :
         /\ Log(c, "createOAuth2Session", resp)
         /\ session' = IF resp.kind = "ok" /\ resp.value # NoSession
                         THEN Set(session, c, resp.value)
                         ELSE session
         /\ Complete(c, LoginWithGoogleResult(resp))
    /\ UNCHANGED <<docs, clock, user, picture, providerAccessToken,
                   prior, created>>

-----------------------------------------------------------------------------
(* The caller takes the result; the client is free for its next call. *)

Return(c) ==
    /\ pc[c] = "done"
    /\ pc' = Set(pc, c, "idle")
    /\ op' = Set(op, c, "none")
    /\ args' = Set(args, c, NoArgs)
    /\ user' = Set(user, c, NoUser)
    /\ picture' = Set(picture, c, Null)
    /\ providerAccessToken' = Set(providerAccessToken, c, Null)
    /\ ret' = Set(ret, c, Undefined)
    /\ outcome' = Set(outcome, c, "none")
    /\ trace' = Set(trace, c, <<>>)
    /\ failed' = Set(failed, c, {})
    /\ prior' = Set(prior, c, 0)
    /\ created' = Set(created, c, 0)
    /\ UNCHANGED <<docs, clock, session, schedule>>

-----------------------------------------------------------------------------

\* One step of client c's helper.
Step(c) ==
    \/ CallStoreUserData(c)
    \/ SudAccountGet(c)
    \/ SudGetSession(c)
    \/ SudGetGooglePicture(c)
    \/ SudGetExistingUser(c)
    \/ SudCreateDocument(c)
    \/ CallGetUser(c)
    \/ GuAccountGet(c)
    \/ GuListDocuments(c)
    \/ CallGetAllUsers(c)
    \/ GauListDocuments(c)
    \/ CallGetExistingUser(c)
    \/ GeuListDocuments(c)
    \/ CallLogoutUser(c)
    \/ LogoutDeleteSession(c)
    \/ LoginWithGoogle(c)
    \/ Return(c)

Next == \E c \in Clients : Step(c)

\* Any number of clients, their helpers interleaved at every await.
Spec == Init /\ [][Next]_vars

\* The helpers run one at a time: a call starts only while no other call is
\* in flight.
SpecSeq == InitSeq /\ [][Next]_vars

-----------------------------------------------------------------------------
(* Vocabulary of the properties *)

Done(c, name) == pc[c] = "done" /\ op[c] = name

\* account.get() resolved the identity of client c's current call.
Authenticated(c) == user[c] # NoUser

InTrace(c, call) == \E i \in 1..Len(trace[c]) : trace[c][i] = call

Times(c, call) == Cardinality({i \in 1..Len(trace[c]) : trace[c][i] = call})

Fetched(c) == InTrace(c, "fetch:photo") \/ InTrace(c, "fetch:nophoto")

\* `first` occurs in the trace of c before every picture fetch.
BeforeFetch(c, first) ==
    \A i \in 1..Len(trace[c]) :
        trace[c][i] \in {"fetch:photo", "fetch:nophoto"}
            => \E j \in 1..(i - 1) : trace[c][j] = first

-----------------------------------------------------------------------------
(* Properties *)

\* C1: at most one profile document is ever stored per accountId, whatever
\* the interleaving of storeUserData calls: no createDocument is performed
\* for an accountId that already has a document.  Stated for the calls whose
\* own lookup succeeded, so that a violation is due to the interleaving alone.
C1_AtMostOneProfilePerAccount ==
    [][\A c \in Clients :
          /\ pc[c] = "sud_create"
          /\ created'[c] # 0
          /\ "listDocuments" \notin failed[c]
          => \A i \in 1..Len(docs') :
                docs'[i].accountId = user[c].id => i = created'[c]]_vars

\* C2: a storeUserData call for an authenticated identity that already has
\* a stored profile returns that profile and performs no createDocument.
C2_ExistingProfileReturned ==
    \A c \in Clients :
        Done(c, "storeUserData") /\ Authenticated(c) /\ prior[c] # 0
            => /\ ret[c] = docs[prior[c]]
               /\ created[c] = 0
               /\ ~InTrace(c, "createDocument")

\* C3: when account.get fails with 401, storeUserData and getUser each
\* return null without throwing and make no further backend call.
C3_UnauthorizedReturnsNull ==
    \A c \in Clients :
        /\ pc[c] = "done"
        /\ op[c] \in {"storeUserData", "getUser"}
        /\ "account.get:401" \in failed[c]
        => /\ outcome[c] = "returned"
           /\ ret[c] = Null
           /\ trace[c] = <<"account.get">>

\* C4, as stated: a storeUserData call for an authenticated identity with no
\* stored profile and no picture creates exactly one document, with
\* imageUrl = null.
C4_NoPictureAlwaysCreates ==
    \A c \in Clients :
        /\ Done(c, "storeUserData")
        /\ Authenticated(c)
        /\ prior[c] = 0
        /\ picture[c] = Null
        => /\ created[c] # 0
           /\ Times(c, "createDocument") = 1
           /\ docs[created[c]].imageUrl = Null

\* C4, amended: a storeUserData call for an authenticated identity that got
\* no picture still goes on to the profile lookup; when the lookup finds no
\* profile it calls createDocument exactly once, with imageUrl = null, and
\* unless createDocument itself fails exactly one document is created, has
\* imageUrl = null and is returned (on that failure none is created and null
\* is returned).
C4_NoPictureStillCreates ==
    \A c \in Clients :
        /\ Done(c, "storeUserData")
        /\ Authenticated(c)
        /\ picture[c] = Null
        => /\ InTrace(c, "listDocuments")
           /\ \/ /\ ~InTrace(c, "createDocument")
                 /\ created[c] = 0
                 /\ ret[c] \in {docs[i] : i \in 1..Len(docs)}
                 /\ ret[c].accountId = user[c].id
              \/ /\ Times(c, "createDocument") = 1
                 /\ IF "createDocument" \in failed[c]
                      THEN created[c] = 0 /\ ret[c] = Null
                      ELSE /\ created[c] # 0
                           /\ docs[created[c]].imageUrl = Null
                           /\ docs[created[c]].accountId = user[c].id
                           /\ ret[c] = docs[created[c]]

\* Witness of C4: a call whose picture fetch served no photo created a
\* document.
C4_Witness ==
    \E c \in Clients :
        /\ Done(c, "storeUserData")
        /\ prior[c] = 0
        /\ InTrace(c, "fetch:nophoto")
        /\ picture[c] = Null
        /\ created[c] # 0

\* C5: when the profile lookup fails during storeUserData, the call returns
\* null and creates no document.
C5_FailedLookupCreatesNothing ==
    \A c \in Clients :
        Done(c, "storeUserData") /\ "listDocuments" \in failed[c]
            => /\ ret[c] = Null
               /\ created[c] = 0
               /\ ~InTrace(c, "createDocument")

\* C6: getAllUsers(limit, offset) returns the page and the total the store
\* reports; when the list call fails it returns an empty page with total 0
\* and does not throw; the store is unchanged either way.
C6_GetAllUsersPage ==
    [][\A c \in Clients :
          pc[c] = "gau_list" /\ pc'[c] = "done"
            => /\ docs' = docs
               /\ outcome'[c] = "returned"
               /\ IF "listDocuments" \in failed'[c]
                    THEN ret'[c] = [type |-> "page", users |-> <<>>, total |-> 0]
                    ELSE /\ ret'[c].type = "page"
                         /\ ret'[c].total = Len(docs)
                         /\ Len(ret'[c].users) =
                              Min(args[c].limit,
                                  IF Len(docs) > args[c].offset
                                    THEN Len(docs) - args[c].offset ELSE 0)
                         /\ \A i \in 1..Len(ret'[c].users) :
                               ret'[c].users[i] = docs[args[c].offset + i]
                         /\ docs = <<>> => ret'[c].users = <<>> /\ ret'[c].total = 0]_vars

\* Witness of C6: getAllUsers returned a page shorter than the store.
C6_Witness ==
    \E c \in Clients :
        /\ Done(c, "getAllUsers")
        /\ failed[c] = {}
        /\ Len(ret[c].users) = 1
        /\ ret[c].total = 2
        /\ ret[c].users[1] = docs[2]

\* C7: whatever backend calls succeed or fail, every helper ends by
\* returning to its caller, never by throwing; a helper in flight can always
\* take its next step; after a createDocument failure storeUserData
\* returns null.
C7_NeverThrows ==
    \A c \in Clients :
        /\ pc[c] = "done" => outcome[c] = "returned"
        /\ pc[c] \notin {"idle", "done"} => ENABLED Step(c)
        /\ Done(c, "storeUserData") /\ "createDocument" \in failed[c]
             => ret[c] = Null

\* Witness of C7: a storeUserData call whose createDocument failed is over.
C7_Witness ==
    \E c \in Clients :
        /\ Done(c, "storeUserData")
        /\ "createDocument" \in failed[c]
        /\ outcome[c] = "returned"

\* C8: within a storeUserData call the picture endpoint is requested only
\* after the profile lookup, and never when the identity already has a
\* stored profile.
C8_PictureOnlyAfterAbsentLookup ==
    \A c \in Clients :
        op[c] = "storeUserData" /\ Fetched(c)
            => /\ BeforeFetch(c, "listDocuments")
               /\ prior[c] = 0

C10_StoreOnlyGrowsByStoreUserData ==
    [][/\ Len(docs') >= Len(docs)
       /\ \A i \in 1..Len(docs) : docs'[i] = docs[i]
       /\ docs' # docs
            => /\ Len(docs') = Len(docs) + 1
               /\ \E c \in Clients :
                     /\ op[c] = "storeUserData"
                     /\ pc[c] = "sud_create"
                     /\ created'[c] = Len(docs')
       /\ \A c \in Clients :
             /\ pc[c] = "gu_list"
             /\ pc'[c] = "done"
             /\ "listDocuments" \notin failed'[c]
             /\ ListByAccountId(docs, user[c].id).total = 0
             => ret'[c] = Null /\ docs' = docs]_vars

\* Witness of C10: getUser found no profile of its account in a store that
\* holds other profiles, and returned null.
C10_Witness ==
    \E c \in Clients :
        /\ Done(c, "getUser")
        /\ Authenticated(c)
        /\ failed[c] = {}
        /\ ret[c] = Null
        /\ docs # <<>>

====
